---- MODULE Spec2Model ----
\* rm_dir (src/main.rs): confirmation gate, delete-and-report flow and the
\* process wiring in main, as a state machine.  One behaviour is one call:
\* the binary's main, or one of the two functions called directly the way
\* the test modules call them (get_user_confirmation with a Vec sink,
\* handle_confirmation with a given confirmation string).
EXTENDS Naturals, Sequences, FiniteSets, TLC

\* ---------------------------------------------------------------- bounds
MaxLen == 3        \* longest content of the input source / confirmation argument
MaxPathLen == 2    \* longest target path, in path units
MaxElapsed == 1    \* largest measured duration, in clock ticks

\* ------------------------------------------------------------- alphabets
\* Characters of the input source: the token, its upper case, another
\* answer, and two White_Space characters (one of them the line terminator).
Chars == {"y", "Y", "n", " ", "\n"}
Whitespace == {" ", "\n"}

\* A path is a sequence of units; InvalidUnit stands for a byte sequence that
\* is not valid UTF-8 (Unix paths are arbitrary bytes), Replacement for U+FFFD.
InvalidUnit == "<0xFF>"
Replacement == "<U+FFFD>"
PathUnits == {"d", InvalidUnit}
Files == {"a.txt", "b.txt"}

SeqsUpTo(S, n) == UNION {[1..k -> S] : k \in 0..n}
Strings == SeqsUpTo(Chars, MaxLen)
Paths == SeqsUpTo(PathUnits, MaxPathLen) \ {<<>>}

ExitSuccess == 0   \* main returns ()
ExitPanic == 101   \* the status of a process whose main thread panicked

VARIABLES
    entry,         \* "main" | "gate" | "handle": which function was called
    pc,            \* position in the call
    source_dir,    \* the target path (dir_to_remove / source_dir: &Path)
    force,         \* opts.force / the force parameter
    input,         \* whole content of the input source
    input_fault,   \* whether a read of the input source fails (I/O fault)
    input_pos,     \* how many characters of it have been consumed
    reads,         \* read_line calls made on the input source
    stdout,        \* chunks written to the process's standard output
    buf,           \* chunks written to an injected sink that is not stdout
    flushed,       \* how many chunks of the injected sink the last flush covered
    user_input,    \* the line read_line stored (local of get_user_confirmation)
    ret,           \* what get_user_confirmation returned
    confirmation,  \* the confirmation handle_confirmation is given
    fs,            \* the target directory on disk
    fs_at_start,   \* the target directory as it was when the call began
    deleteCalls,   \* calls of remove_dir_all
    result,        \* what handle_confirmation returned
    panic_msg,     \* message of the panic that ended the call, "" if none
    exit           \* the exit status the process signalled: {} while it runs

\* What the call was given; no step changes it.
args == <<entry, source_dir, force, input, input_fault>>

vars == <<args, pc, input_pos, reads, stdout, buf, flushed, user_input, ret,
          confirmation, fs, fs_at_start, deleteCalls, result, panic_msg, exit>>

\* ------------------------------------------------------- pure operators
RECURSIVE TrimStart(_)
TrimStart(s) ==
    IF s # <<>> /\ Head(s) \in Whitespace THEN TrimStart(Tail(s)) ELSE s

RECURSIVE TrimEnd(_)
TrimEnd(s) ==
    IF s # <<>> /\ s[Len(s)] \in Whitespace
    THEN TrimEnd(SubSeq(s, 1, Len(s) - 1)) ELSE s

\* str::trim
Trim(s) == TrimEnd(TrimStart(s))

LowerChar(c) == IF c = "Y" THEN "y" ELSE c

\* Mutant: the confirmation is compared case-sensitively.
ToLowercaseIdentity(s) == s
\* str::to_lowercase
ToLowercase(s) == [i \in 1..Len(s) |-> LowerChar(s[i])]

\* Path::to_string_lossy: invalid UTF-8 becomes U+FFFD, the rest is kept.
ToStringLossy(p) ==
    [i \in 1..Len(p) |-> IF p[i] = InvalidUnit THEN Replacement ELSE p[i]]

\* BufRead::read_line: the characters up to and including the first "\n" from
\* the cursor on, or everything left when there is none (end of input).
LineLen(data, pos) ==
    LET nl == {i \in (pos + 1)..Len(data) : data[i] = "\n"}
    IN IF nl = {} THEN Len(data) - pos
       ELSE (CHOOSE i \in nl : \A j \in nl : i <= j) - pos

\* --------------------------------------------------------- output chunks
\* A chunk is one formatted write: the format string, the text substituted
\* for its placeholder, and whether println! terminated it with a newline.
Chunk(f, a, n) == [fmt |-> f, arg |-> a, nl |-> n]

ForceLines(p) ==
    << Chunk("Running delete without confirmation.", <<>>, TRUE),
       Chunk("Deleting all files and folders in {}.", ToStringLossy(p), TRUE) >>

Prompt(p) ==
    Chunk("Are you sure you want to delete all files and folders in {}? (y/n) ",
          ToStringLossy(p), FALSE)

AbortLine(c) == Chunk("Aborting as user input '{}' was not 'y'", c, TRUE)

RemovedLine(p) ==
    Chunk("Removed all files and folders from {}", ToStringLossy(p), TRUE)

ErrorLine(e) == Chunk("Error: {}", <<e>>, TRUE)

DoneLine(t) == Chunk("Done in {}s", <<ToString(t)>>, TRUE)

NoValue == [kind |-> "none", value |-> <<>>]
Returned(s) == [kind |-> "ok", value |-> s]

Absent == [exists |-> FALSE, files |-> {}]
FsStates == {Absent} \cup {[exists |-> TRUE, files |-> F] : F \in SUBSET Files}

\* ------------------------------------------------------------------ Init
Init ==
    /\ entry \in {"main", "gate", "handle"}
    /\ pc = entry
    /\ source_dir \in Paths
    /\ force \in (IF entry = "handle" THEN {FALSE} ELSE BOOLEAN)
    /\ input \in (IF entry = "handle" THEN {<<>>} ELSE Strings)
    /\ input_fault \in (IF entry = "handle" THEN {FALSE} ELSE BOOLEAN)
    /\ input_pos = 0
    /\ reads = 0
    /\ stdout = <<>>
    /\ buf = <<>>
    /\ flushed = 0
    /\ user_input = <<>>
    /\ ret = NoValue
    /\ confirmation \in (IF entry = "handle" THEN Strings ELSE {<<>>})
    /\ fs \in (IF entry = "gate" THEN {Absent} ELSE FsStates)
    /\ fs_at_start = fs
    /\ deleteCalls = 0
    /\ result = "none"
    /\ panic_msg = ""
    /\ exit = {}

\* --------------------------------------------------------------- actions
\* panic!: the call unwinds, nothing is returned, the process fails.
Panic(msg) ==
    /\ pc' = "panicked"
    /\ panic_msg' = msg
    /\ exit' = {ExitPanic}

\* A write through the injected sink.  main passes stdout() itself as the
\* sink; the tests pass a Vec.
SinkWrite(chunk) ==
    IF entry = "main"
    THEN stdout' = Append(stdout, chunk) /\ buf' = buf
    ELSE buf' = Append(buf, chunk) /\ stdout' = stdout

Sink == IF entry = "main" THEN stdout ELSE buf

\* main, lines 23-27: the path resolves to an existing directory or main panics.
Canonicalize ==
    /\ pc = "main"
    /\ IF fs.exists
       THEN pc' = "gate" /\ UNCHANGED <<panic_msg, exit>>
       ELSE Panic("canonicalize")
    /\ UNCHANGED <<args, input_pos, reads, stdout,
                   buf, flushed, user_input, ret, confirmation, fs, fs_at_start,
                   deleteCalls, result>>

\* Mutant: the forced path consumes a line of the input source first.
GateForceReading ==
    /\ pc = "gate" /\ force
    /\ stdout' = stdout \o ForceLines(source_dir)
    /\ reads' = reads + 1
    /\ input_pos' = input_pos + LineLen(input, input_pos)
    /\ ret' = Returned(<<"y">>)
    /\ pc' = "gate_ret"
    /\ UNCHANGED <<args, buf, flushed, user_input, confirmation, fs,
                   fs_at_start, deleteCalls, result, panic_msg, exit>>

\* Mutant: the forced path writes its two lines through the injected sink.
GateForceToSink ==
    /\ pc = "gate" /\ force
    /\ IF entry = "main"
       THEN stdout' = stdout \o ForceLines(source_dir) /\ buf' = buf
       ELSE buf' = buf \o ForceLines(source_dir) /\ stdout' = stdout
    /\ ret' = Returned(<<"y">>)
    /\ pc' = "gate_ret"
    /\ UNCHANGED <<args, input_pos, reads, flushed, user_input, confirmation,
                   fs, fs_at_start, deleteCalls, result, panic_msg, exit>>

\* get_user_confirmation, lines 47-54: the forced path.
GateForce ==
    /\ pc = "gate" /\ force
    /\ stdout' = stdout \o ForceLines(source_dir)
    /\ ret' = Returned(<<"y">>)
    /\ pc' = "gate_ret"
    /\ UNCHANGED <<args, input_pos, reads, buf,
                   flushed, user_input, confirmation, fs, fs_at_start,
                   deleteCalls, result, panic_msg, exit>>

\* get_user_confirmation, lines 56-61: format and write the prompt.
WritePrompt ==
    /\ pc = "gate" /\ ~force
    /\ \/ /\ SinkWrite(Prompt(source_dir))
          /\ pc' = "flush"
          /\ UNCHANGED <<panic_msg, exit>>
       \/ /\ Panic("Failed to write prompt Error: {}")
          /\ UNCHANGED <<stdout, buf>>
    /\ UNCHANGED <<args, input_pos, reads, flushed,
                   user_input, ret, confirmation, fs, fs_at_start, deleteCalls,
                   result>>

\* Mutant: the prompt is left in the sink's buffer when the read starts.
FlushOutputSkipped ==
    /\ pc = "flush"
    /\ pc' = "read"
    /\ UNCHANGED <<args, input_pos, reads, stdout, buf, flushed, user_input,
                   ret, confirmation, fs, fs_at_start, deleteCalls, result,
                   panic_msg, exit>>

\* get_user_confirmation, lines 63-65: flush the sink.
FlushOutput ==
    /\ pc = "flush"
    /\ \/ /\ flushed' = Len(Sink)
          /\ pc' = "read"
          /\ UNCHANGED <<panic_msg, exit>>
       \/ /\ Panic("Failed to flush output. Error: {}")
          /\ UNCHANGED flushed
    /\ UNCHANGED <<args, input_pos, reads, stdout,
                   buf, user_input, ret, confirmation, fs, fs_at_start,
                   deleteCalls, result>>

\* Mutant: a failed read is taken for an empty line.
ReadLineSwallowing ==
    /\ pc = "read"
    /\ reads' = reads + 1
    /\ LET n == IF input_fault THEN 0 ELSE LineLen(input, input_pos)
           line == SubSeq(input, input_pos + 1, input_pos + n)
       IN /\ user_input' = line
          /\ input_pos' = input_pos + n
          /\ ret' = Returned(Trim(line))
    /\ pc' = "gate_ret"
    /\ UNCHANGED <<args, stdout, buf, flushed, confirmation, fs, fs_at_start,
                   deleteCalls, result, panic_msg, exit>>

\* get_user_confirmation, lines 67-72: read one line, return it trimmed.
ReadLine ==
    /\ pc = "read"
    /\ reads' = reads + 1
    /\ IF ~input_fault
       THEN LET n == LineLen(input, input_pos)
                line == SubSeq(input, input_pos + 1, input_pos + n)
            IN /\ user_input' = line
               /\ input_pos' = input_pos + n
               /\ ret' = Returned(Trim(line))
               /\ pc' = "gate_ret"
               /\ UNCHANGED <<panic_msg, exit>>
       ELSE /\ Panic("Failed to read user input {}")
            /\ UNCHANGED <<user_input, input_pos, ret>>
    /\ UNCHANGED <<args, stdout, buf, flushed,
                   confirmation, fs, fs_at_start, deleteCalls, result>>

\* main, lines 29-36: trim and lowercase what the gate returned.
MainNormalize ==
    /\ pc = "gate_ret" /\ entry = "main"
    /\ confirmation' = ToLowercase(Trim(ret.value))
    /\ pc' = "handle"
    /\ UNCHANGED <<args, input_pos, reads, stdout,
                   buf, flushed, user_input, ret, fs, fs_at_start, deleteCalls,
                   result, panic_msg, exit>>

\* Mutant: the test of the confirmation is missing.
ProceedsAlways(c) == TRUE
\* handle_confirmation, line 76: the test that lets the delete happen.
Proceeds(c) == c = <<"y">>

\* std::fs::remove_dir_all (lines 97-99): every way the call can end on
\* directory f.  A failed removal may have removed part of the tree.
RemoveDirAll(f) ==
    IF ~f.exists
    THEN {[res |-> "NotFound", after |-> f]}
    ELSE {[res |-> "Ok", after |-> Absent]} \cup
         {[res |-> "PermissionDenied", after |-> [exists |-> TRUE, files |-> F]] :
            F \in SUBSET f.files}

\* Mutant: success is reported whatever the delete call returned.
ReportAlwaysRemoved(p, res, t) == << RemovedLine(p), DoneLine(t) >>

\* Mutant: the timing line is left out.
ReportNoDone(p, res, t) ==
    << IF res = "Ok" THEN RemovedLine(p) ELSE ErrorLine(res) >>

\* handle_confirmation, lines 84-92: what is printed after the delete call.
Report(p, res, t) ==
    << IF res = "Ok" THEN RemovedLine(p) ELSE ErrorLine(res), DoneLine(t) >>

\* Mutant: the early return also prints the timing line.
HandleDeclineWithDone ==
    /\ pc = "handle" /\ ~Proceeds(confirmation)
    /\ stdout' = stdout \o << AbortLine(confirmation), DoneLine(0) >>
    /\ result' = "Ok"
    /\ pc' = "handle_ret"
    /\ UNCHANGED <<fs, deleteCalls>>

\* handle_confirmation, lines 76-79: the early return.
HandleDecline ==
    /\ pc = "handle" /\ ~Proceeds(confirmation)
    /\ stdout' = Append(stdout, AbortLine(confirmation))
    /\ result' = "Ok"
    /\ pc' = "handle_ret"
    /\ UNCHANGED <<fs, deleteCalls>>

\* handle_confirmation, lines 81-94: delete, report, return the result.
HandleDelete ==
    /\ pc = "handle" /\ Proceeds(confirmation)
    /\ \E o \in RemoveDirAll(fs), t \in 0..MaxElapsed :
          /\ fs' = o.after
          /\ stdout' = stdout \o Report(source_dir, o.res, t)
          /\ result' = o.res
    /\ deleteCalls' = deleteCalls + 1
    /\ pc' = "handle_ret"

HandleConfirmation ==
    /\ HandleDecline \/ HandleDelete
    /\ UNCHANGED <<args, input_pos, reads, buf,
                   flushed, user_input, ret, confirmation, fs_at_start,
                   panic_msg, exit>>

\* main, lines 38-39: the result is bound to _result and main returns.
ExitStatus(r) == ExitSuccess

MainExit ==
    /\ pc = "handle_ret" /\ entry = "main"
    /\ exit' = {ExitStatus(result)}
    /\ pc' = "exited"
    /\ UNCHANGED <<args, input_pos, reads, stdout,
                   buf, flushed, user_input, ret, confirmation, fs, fs_at_start,
                   deleteCalls, result, panic_msg>>

Next ==
    \/ Canonicalize
    \/ GateForce
    \/ WritePrompt
    \/ FlushOutput
    \/ ReadLine
    \/ MainNormalize
    \/ HandleConfirmation
    \/ MainExit

Spec == Init /\ [][Next]_vars

\* ---------------------------------------------------------------- claims
\* Positions at which get_user_confirmation / handle_confirmation has returned.
GateReturned ==
    entry \in {"main", "gate"} /\ pc \in {"gate_ret", "handle", "handle_ret", "exited"}
HandleReturned == pc \in {"handle_ret", "exited"}

\* A line made of one "y" or "Y" with nothing but whitespace around it.
IsYToken(line) ==
    \E i \in 1..Len(line) :
        /\ line[i] \in {"y", "Y"}
        /\ \A j \in 1..Len(line) : j # i => line[j] \in Whitespace

Range(q) == {q[i] : i \in 1..Len(q)}
IsUtf8(p) == InvalidUnit \notin Range(p)
IsPrompt(c) == c.nl = FALSE
IsDone(c) == c.fmt = "Done in {}s"
IsOutcome(c) == c.fmt \in {"Removed all files and folders from {}", "Error: {}"}

\* C1: remove_dir_all is called at most once, only with the confirmation "y"
\* (in main: force, or a line that normalizes to "y"); once
\* handle_confirmation has returned on another confirmation it was never
\* called and the directory is as it was.
C1_DeleteOnlyWhenAffirmed ==
    /\ deleteCalls <= 1
    /\ deleteCalls = 1 => confirmation = <<"y">>
    /\ (deleteCalls = 1 /\ entry = "main") => (force \/ IsYToken(user_input))
    /\ (HandleReturned /\ confirmation # <<"y">>) =>
          (deleteCalls = 0 /\ fs = fs_at_start)

C1_Witness ==
    entry = "main" /\ ~force /\ deleteCalls = 1 /\ pc = "exited" /\ result = "Ok"

\* C2: in main without force, whatever line was read, the run affirms (and
\* calls the delete) exactly when the line is a single y/Y surrounded by
\* whitespace only; every other line, the empty one included, declines.
C2_AffirmedIffY ==
    (entry = "main" /\ ~force /\ pc \in {"handle", "handle_ret", "exited"}) =>
        /\ (confirmation = <<"y">>) <=> IsYToken(user_input)
        /\ HandleReturned => ((deleteCalls = 1) <=> IsYToken(user_input))

C2_Witness ==
    /\ entry = "main" /\ ~force /\ pc = "exited"
    /\ user_input = <<" ", "Y", "\n">>
    /\ deleteCalls = 1

\* C3: with force, get_user_confirmation returns "y", makes no read on the
\* input source, leaves it unconsumed, and writes no prompt anywhere.
C3_ForceNoRead ==
    (force /\ entry \in {"main", "gate"}) =>
        /\ reads = 0 /\ input_pos = 0 /\ user_input = <<>>
        /\ \A c \in Range(stdout) \cup Range(buf) : ~IsPrompt(c)
        /\ pc \notin {"flush", "read"}
        /\ GateReturned => ret = Returned(<<"y">>)

C3_Witness ==
    entry = "gate" /\ force /\ pc = "gate_ret" /\ input = <<"n", "\n">>

\* C4 as stated: with force, the injected sink holds exactly the two lines,
\* the second naming the path exactly as provided.
C4_ForceLinesInSink ==
    (force /\ pc = "gate_ret") =>
        Sink = << Chunk("Running delete without confirmation.", <<>>, TRUE),
                  Chunk("Deleting all files and folders in {}.", source_dir, TRUE) >>

\* C4 amended: with force, the two lines go, in this order and alone, to the
\* process's standard output, the second naming the path's lossy UTF-8
\* rendering (the path itself when it is valid UTF-8); nothing is written
\* through the injected sink, so a sink that is not stdout stays empty.
C4_ForceLinesOnStdout ==
    (force /\ pc = "gate_ret") =>
        /\ Len(stdout) = 2
        /\ stdout[1] = Chunk("Running delete without confirmation.", <<>>, TRUE)
        /\ stdout[2].fmt = "Deleting all files and folders in {}."
        /\ stdout[2].nl
        /\ stdout[2].arg = ToStringLossy(source_dir)
        /\ IsUtf8(source_dir) => stdout[2].arg = source_dir
        /\ buf = <<>>
        /\ flushed = 0

C4_Witness ==
    /\ entry = "gate" /\ force /\ pc = "gate_ret"
    /\ Len(stdout) = 2 /\ buf = <<>> /\ ~IsUtf8(source_dir)

\* The part of the input source consumed so far is exactly one line: no
\* terminator before its end, and it ends at a terminator or at end of input.
ConsumedOneLine ==
    /\ \A i \in 1..(input_pos - 1) : input[i] # "\n"
    /\ input_pos = Len(input) \/ (input_pos >= 1 /\ input[input_pos] = "\n")
    /\ user_input = SubSeq(input, 1, input_pos)

\* The interactive gate's sink: one chunk, the prompt naming `shown`, no
\* newline, flushed.
PromptAlone(shown) ==
    /\ Sink = << Chunk("Are you sure you want to delete all files and folders in {}? (y/n) ",
                       shown, FALSE) >>
    /\ flushed = 1

\* C5 as stated: without force the sink holds the prompt, naming the path
\* exactly as provided, once and flushed before the single read of one line.
C5_PromptExactPath ==
    /\ (~force /\ pc = "read") => (PromptAlone(source_dir) /\ reads = 0)
    /\ (~force /\ pc = "gate_ret") =>
          (PromptAlone(source_dir) /\ reads = 1 /\ ConsumedOneLine)

\* C5 amended: without force the gate writes the prompt, naming the path's
\* lossy UTF-8 rendering (the path itself when it is valid UTF-8), once and
\* with no newline, flushes, and only then reads; it reads exactly one line
\* and writes nothing else to the sink.
C5_PromptThenRead ==
    /\ (~force /\ entry \in {"main", "gate"}) =>
          /\ reads <= 1
          /\ reads = 1 => flushed = 1
          /\ pc = "gate" => (Sink = <<>> /\ reads = 0 /\ input_pos = 0)
          /\ pc = "flush" => (reads = 0 /\ input_pos = 0)
    /\ (~force /\ pc = "read") =>
          /\ PromptAlone(ToStringLossy(source_dir))
          /\ IsUtf8(source_dir) => PromptAlone(source_dir)
          /\ reads = 0 /\ input_pos = 0
    /\ (~force /\ pc = "gate_ret") =>
          /\ PromptAlone(ToStringLossy(source_dir))
          /\ IsUtf8(source_dir) => PromptAlone(source_dir)
          /\ reads = 1
          /\ ConsumedOneLine

C5_Witness ==
    /\ entry = "gate" /\ ~force /\ pc = "gate_ret"
    /\ input = <<"y", "\n", "n">> /\ input_pos = 2
    /\ IsUtf8(source_dir)

\* C6: once the delete was attempted, the output ends with exactly one
\* outcome line, `Removed ...` iff the primitive succeeded (the directory is
\* gone) and `Error: <detail>` iff it failed, then `Done in <t>s`;
\* handle_confirmation returns the primitive's result, and the delete was
\* called once.
C6_OutcomeReported ==
    (deleteCalls >= 1 /\ HandleReturned) =>
        LET n == Len(stdout) IN
        /\ deleteCalls = 1
        /\ n >= 2
        /\ IsDone(stdout[n]) /\ stdout[n].nl
        /\ \E t \in 0..MaxElapsed : stdout[n].arg = <<ToString(t)>>
        /\ Cardinality({i \in 1..n : IsOutcome(stdout[i])}) = 1
        /\ Cardinality({i \in 1..n : IsDone(stdout[i])}) = 1
        /\ result = "Ok" <=>
              stdout[n - 1] = Chunk("Removed all files and folders from {}",
                                    ToStringLossy(source_dir), TRUE)
        /\ result # "Ok" <=> stdout[n - 1] = Chunk("Error: {}", <<result>>, TRUE)
        /\ result = "Ok" <=> (fs_at_start.exists /\ ~fs.exists)
        /\ result = "NotFound" <=> ~fs_at_start.exists
        /\ result = "PermissionDenied" <=> (fs_at_start.exists /\ fs.exists)

C6_Witness ==
    entry = "handle" /\ pc = "handle_ret" /\ result = "NotFound" /\ Len(stdout) = 2

\* C7: once handle_confirmation has returned on a confirmation other than
\* "y", it has printed the one line `Aborting as user input '<confirmation>'
\* was not 'y'` (in main the confirmation is the normalized line), returned
\* Ok, and the directory and its files are as they were.
C7_DeclineIsNoOp ==
    (HandleReturned /\ confirmation # <<"y">>) =>
        LET n == Len(stdout) IN
        /\ n = (IF entry = "main" THEN 2 ELSE 1)
        /\ stdout[n] = Chunk("Aborting as user input '{}' was not 'y'",
                             confirmation, TRUE)
        /\ entry = "main" =>
              /\ stdout[1] = Prompt(source_dir)
              /\ confirmation = ToLowercase(Trim(user_input))
        /\ result = "Ok"
        /\ deleteCalls = 0
        /\ fs = fs_at_start

C7_Witness ==
    /\ entry = "main" /\ pc = "exited" /\ user_input = <<"n", "\n">>
    /\ fs = [exists |-> TRUE, files |-> Files]
    /\ result = "Ok"

\* C8 as stated: the process exits non-zero when the delete fails or when
\* path resolution or the read fails, and zero on a successful deletion or a
\* clean decline.
C8_ExitStatusReflectsOutcome ==
    (entry = "main" /\ exit # {}) =>
        /\ (deleteCalls = 1 /\ result # "Ok") => exit # {ExitSuccess}
        /\ (~fs_at_start.exists \/ (input_fault /\ reads = 1)) =>
              exit # {ExitSuccess}
        /\ (pc = "exited" /\ (result = "Ok")) => exit = {ExitSuccess}

\* C9 as stated: every call that reached a decision ends its output with the
\* `Done in <t>s` line.
C9_AlwaysDone ==
    HandleReturned => (stdout # <<>> /\ IsDone(stdout[Len(stdout)]))

\* C9 amended: every call in which the delete was attempted ends its output
\* with `Done in <t>s`, whether the delete succeeded or failed; a declined
\* call ends with the `Aborting ...` line and prints no `Done` line.
C9_DoneAfterDeleteOnly ==
    HandleReturned =>
        /\ stdout # <<>>
        /\ confirmation = <<"y">> =>
              (deleteCalls = 1 /\ IsDone(stdout[Len(stdout)]))
        /\ confirmation # <<"y">> =>
              /\ stdout[Len(stdout)].fmt = "Aborting as user input '{}' was not 'y'"
              /\ \A c \in Range(stdout) : ~IsDone(c)

C9_Witness ==
    /\ entry = "main" /\ pc = "exited" /\ force
    /\ result = "PermissionDenied" /\ IsDone(stdout[Len(stdout)])

\* C10 as stated: when the read fails, the gate hands its caller an error
\* value (it returns), with one read, no delete and the directory unchanged.
C10_InputFailureReturned ==
    (~force /\ input_fault /\ reads >= 1) =>
        /\ pc # "panicked"
        /\ ret.kind = "err"
        /\ reads = 1 /\ deleteCalls = 0 /\ fs = fs_at_start

\* C10 amended: when the read fails, the gate panics with `Failed to read
\* user input <e>` and returns nothing; the process ends with a failure
\* status; the read is not retried, no delete is attempted and the directory
\* is unchanged.
C10_InputFailurePanics ==
    (~force /\ input_fault /\ reads >= 1) =>
        /\ pc = "panicked"
        /\ panic_msg = "Failed to read user input {}"
        /\ ret = NoValue
        /\ exit = {ExitPanic}
        /\ reads = 1 /\ input_pos = 0
        /\ deleteCalls = 0 /\ result = "none"
        /\ fs = fs_at_start

C10_Witness ==
    /\ entry = "main" /\ ~force /\ input_fault /\ reads = 1
    /\ pc = "panicked" /\ fs.exists /\ fs.files = Files

====
